---- MODULE Spec2Model ----
(***************************************************************************)
(* A model of vit.py: the ViT encoder (constructor and forward pass, at    *)
(* the level of tensor shapes and of the order of patches and positions),  *)
(* the transformer block (at the level of values) and the truncated-normal *)
(* initializer (in fixed-point arithmetic).                                *)
(*                                                                         *)
(* Tensors of the forward pass are modelled by their shape and, for the    *)
(* patch sequence and the positional grid, by the grid coordinate each     *)
(* sequence position comes from.  The framework's operations (Rearrange,   *)
(* Conv2d, reshape, interpolate, broadcasting add) are modelled by their   *)
(* shape rules and by the errors they raise.                               *)
(***************************************************************************)
EXTENDS Integers, Sequences, FiniteSets, TLC

VARIABLES pc, vit, call, out, blk, bout, tn

vars == <<pc, vit, call, out, blk, bout, tn>>

(***************************************************************************)
(* Bounds of the model.                                                    *)
(***************************************************************************)
MaxSide == 4      \* image heights and widths are 1..MaxSide
Batch == 2        \* the batch size of every forward call
MaxDepth == 1     \* depth is 0..MaxDepth
Dim == 3          \* the embedding dimension of every constructed model
Heads == 2        \* the head count of every constructed model
Channels == 1     \* the channel count of every model and image
PatchSides == {1, 2}

DimHeadDefault == 64

Sides == 1..MaxSide
Bool == {TRUE, FALSE}
Projections == {"linear", "conv"}
MixValues == [mixup : {"None", "True"}, lbda : {"None", "0.5"}, perm : {"None", "randperm"}]

(***************************************************************************)
(* Helpers of the framework.                                               *)
(***************************************************************************)
\* int(math.sqrt(N)) for a natural N
ISqrt(N) == CHOOSE s \in 0..N : s * s <= N /\ N < (s + 1) * (s + 1)

\* The grid coordinates of a rows x cols grid, flattened row by row.
RowMajor(rows, cols) ==
  [k \in 1..(rows * cols) |-> <<(k - 1) \div cols, (k - 1) % cols>>]

\* The same grid flattened column by column.
ColMajor(rows, cols) ==
  [k \in 1..(rows * cols) |-> <<(k - 1) % rows, (k - 1) \div rows>>]

(***************************************************************************)
(* ViT.__init__                                                            *)
(***************************************************************************)
NumPatchesCeil(image_height, image_width, patch_height, patch_width) ==
  ((image_height + patch_height - 1) \div patch_height)
    * ((image_width + patch_width - 1) \div patch_width)

\* num_patches = (image_height // patch_height) * (image_width // patch_width)
NumPatches(image_height, image_width, patch_height, patch_width) ==
  (image_height \div patch_height) * (image_width \div patch_width)

\* The fields the constructor stores.  image_height and image_width are not
\* stored by the code; the model keeps them to state the claims.
ViTInit(image_size, patch_size, dim, depth, heads, pool, projection) ==
  [ image_height |-> image_size[1],
    image_width  |-> image_size[2],
    patch_height |-> patch_size[1],
    patch_width  |-> patch_size[2],
    projection   |-> projection,
    pos_len      |-> NumPatches(image_size[1], image_size[2],
                                patch_size[1], patch_size[2]) + 1,
    dim          |-> dim,
    depth        |-> depth,
    heads        |-> heads,
    dim_head     |-> DimHeadDefault,
    pool         |-> pool ]

NoModel == ViTInit(<<1, 1>>, <<1, 1>>, Dim, 0, Heads, FALSE, "linear")

(***************************************************************************)
(* Patch embedding                                                         *)
(***************************************************************************)
NoEmbed(status) == [status |-> status, grid |-> <<0, 0>>, shape |-> <<>>, seq |-> <<>>]

\* Rearrange('b c (h ph) (w pw) -> b (h w) (ph pw c)') then Linear(patch_dim, dim)
LinearProjection(self, xs) ==
  LET ph == self.patch_height
      pw == self.patch_width
  IN IF xs[3] % ph # 0 \/ xs[4] % pw # 0
       THEN NoEmbed("rearrange_error")
       ELSE LET rows == xs[3] \div ph
                cols == xs[4] \div pw
            IN [ status |-> "ok",
                 grid   |-> <<rows, cols>>,
                 shape  |-> <<xs[1], rows * cols, self.dim>>,
                 seq    |-> RowMajor(rows, cols) ]

ConvProjectionForwardColMajor(self, xs) ==
  LET ph == self.patch_height
      pw == self.patch_width
  IN IF xs[3] < ph \/ xs[4] < pw
       THEN NoEmbed("conv_error")
       ELSE LET rows == (xs[3] - ph) \div ph + 1
                cols == (xs[4] - pw) \div pw + 1
            IN [ status |-> "ok",
                 grid   |-> <<rows, cols>>,
                 shape  |-> <<xs[1], rows * cols, self.dim>>,
                 seq    |-> ColMajor(rows, cols) ]

\* Conv2d(channels, dim, kernel_size=patch_size, stride=patch_size), then
\* flatten(2).transpose(1, 2)
ConvProjectionForward(self, xs) ==
  LET ph == self.patch_height
      pw == self.patch_width
  IN IF xs[3] < ph \/ xs[4] < pw
       THEN NoEmbed("conv_error")
       ELSE LET rows == (xs[3] - ph) \div ph + 1
                cols == (xs[4] - pw) \div pw + 1
            IN [ status |-> "ok",
                 grid   |-> <<rows, cols>>,
                 shape  |-> <<xs[1], rows * cols, self.dim>>,
                 seq    |-> RowMajor(rows, cols) ]

\* self.patch_to_embedding(x)
PatchToEmbedding(self, xs) ==
  IF self.projection = "linear" THEN LinearProjection(self, xs)
                                ELSE ConvProjectionForward(self, xs)

(***************************************************************************)
(* ViT.interpolate_pos_encoding                                            *)
(***************************************************************************)
NoPos(status, path) ==
  [status |-> status, path |-> path, kind |-> "none", len |-> 0,
   target |-> <<0, 0>>, grid |-> <<0, 0>>, seq |-> <<>>]

InterpolateOutputSizeByN(side, target10, N) == (side * target10) \div (10 * N)

\* The output size nn.functional.interpolate computes for one axis:
\* floor(input_size * scale_factor), with input_size = int(sqrt(N)) = side and
\* scale_factor = (target + 0.1) / sqrt(N).  target10 is ten times the
\* target with its epsilon, 10 * target + 1; N = side * side here.
InterpolateOutputSize(side, target10, N) == (side * target10) \div (10 * side)

InterpolatePosEncoding(self, xshape, w, h) ==
  LET num_patches == xshape[2] - 1
      N == self.pos_len - 1
      side == ISqrt(N)
      h0 == h \div self.patch_height
      w0 == w \div self.patch_width
      h10 == 10 * h0 + 1            \* h0 + 0.1, in tenths
      w10 == 10 * w0 + 1
      rows == InterpolateOutputSize(side, h10, N)
      cols == InterpolateOutputSize(side, w10, N)
  IN IF num_patches = N /\ w = h
       THEN [ status |-> "ok", path |-> "fast", kind |-> "stored",
              len |-> self.pos_len, target |-> <<0, 0>>, grid |-> <<0, 0>>,
              seq |-> <<>> ]
     ELSE IF side * side # N THEN NoPos("reshape_error", "general")
     ELSE IF N = 0 THEN NoPos("zero_division_error", "general")
     ELSE IF rows <= 0 \/ cols <= 0 THEN NoPos("interpolate_error", "general")
     ELSE IF ~(h10 \div 10 = rows /\ w10 \div 10 = cols)
       THEN [ NoPos("assertion_error", "general") EXCEPT
                !.target = <<h10 \div 10, w10 \div 10>>, !.grid = <<rows, cols>> ]
     ELSE [ status |-> "ok", path |-> "general", kind |-> "interpolated",
            len |-> 1 + rows * cols,
            target |-> <<h10 \div 10, w10 \div 10>>,
            grid |-> <<rows, cols>>,
            seq |-> RowMajor(rows, cols) ]

(***************************************************************************)
(* Attention.forward and TransformerBlock.forward, on shapes               *)
(***************************************************************************)
\* (batch, n, dim) -> (batch, n, dim), through the shapes of every step
AttentionShape(self, s) ==
  LET inner  == self.dim_head * self.heads
      qkv    == <<s[1], s[2], inner * 3>>                \* to_qkv
      chunk  == <<qkv[1], qkv[2], qkv[3] \div 3>>        \* chunk(3, dim=-1)
      q      == <<chunk[1], self.heads, chunk[2], chunk[3] \div self.heads>>
      prod   == <<q[1], q[2], q[3], q[3]>>               \* b h n m
      o      == <<prod[1], prod[2], prod[3], q[4]>>      \* b h n d
      merged == <<o[1], o[3], o[2] * o[4]>>              \* b n (h d)
  IN <<merged[1], merged[2], self.dim>>                  \* to_out

\* norm1, x + attention(x), norm2, x + mlp(x): the adds need equal shapes
BlockShape(self, s) ==
  LET a == AttentionShape(self, s)
  IN IF a = s THEN s ELSE <<>>

RECURSIVE LayersShape(_, _, _)
LayersShape(self, s, k) ==
  IF k = 0 THEN s ELSE LayersShape(self, BlockShape(self, s), k - 1)

(***************************************************************************)
(* ViT.forward                                                             *)
(***************************************************************************)
NoFeatures == [shape |-> <<>>, seqshape |-> <<>>, blocks |-> 0, normed |-> FALSE, pooled |-> "none"]

Result(status, e, p, f) == [status |-> status, embed |-> e, pos |-> p, features |-> f]

\* forward from "n = x.shape[1]" on, given the embedded patches e
ForwardAfterEmbedding(self, xs, norm, e) ==
  LET b == xs[1]
      w == xs[3]
      h == xs[4]
  IN IF e.status # "ok" THEN Result(e.status, e, NoPos("none", "none"), NoFeatures)
     ELSE
       LET n == e.shape[2]
           xcat == <<b, n + 1, self.dim>>        \* torch.cat((cls_tokens, x), dim=1)
           p == InterpolatePosEncoding(self, xcat, w, h)
       IN IF p.status # "ok" THEN Result(p.status, e, p, NoFeatures)
          \* x += pos: the (1, len, dim) tensor must broadcast to x in place
          ELSE IF ~(p.len = xcat[2] \/ p.len = 1) THEN Result("add_error", e, p, NoFeatures)
          ELSE
            LET xl == LayersShape(self, xcat, self.depth)
                \* x.mean(dim=1) if self.pool else x[:, 0]
                f == [ shape    |-> <<xl[1], xl[3]>>,
                       seqshape |-> xl,
                       blocks   |-> self.depth,
                       normed   |-> norm,
                       pooled   |-> IF self.pool THEN "mean" ELSE "cls" ]
            IN Result("ok", e, p, f)

\* A forward that blends the batch with its permutation when mixup is given:
\* it indexes with perm and multiplies by lbda, and fails when either is None.
ViTForwardMixing(self, xs, norm, mixup, lbda, perm) ==
  IF mixup # "None" /\ (perm = "None" \/ lbda = "None")
    THEN Result("mixup_error", NoEmbed("none"), NoPos("none", "none"), NoFeatures)
    ELSE ForwardAfterEmbedding(self, xs, norm, PatchToEmbedding(self, xs))

ViTForward(self, xs, norm, mixup, lbda, perm) ==
  ForwardAfterEmbedding(self, xs, norm, PatchToEmbedding(self, xs))

(***************************************************************************)
(* The encoder as a state machine: construct once, then forward calls.     *)
(***************************************************************************)
NoCall == [x |-> <<1, Channels, 1, 1>>, norm |-> TRUE,
           mixup |-> "None", lbda |-> "None", perm |-> "None"]
NoOut == Result("none", NoEmbed("none"), NoPos("none", "none"), NoFeatures)

Idle == /\ blk = 0 /\ bout = 0 /\ tn = 0

Init ==
  /\ pc = "new"
  /\ vit = NoModel
  /\ call = NoCall
  /\ out = NoOut
  /\ Idle

Construct ==
  /\ pc = "new"
  /\ \E ih \in Sides, iw \in Sides, ph \in PatchSides, pw \in PatchSides,
        depth \in 0..MaxDepth, pool \in Bool, projection \in Projections :
       vit' = ViTInit(<<ih, iw>>, <<ph, pw>>, Dim, depth, Heads, pool, projection)
  /\ pc' = "ready"
  /\ UNCHANGED <<call, out, blk, bout, tn>>

Forward ==
  /\ pc = "ready"
  /\ \E b \in {Batch}, H \in Sides, W \in Sides, norm \in Bool, m \in MixValues :
       /\ call' = [x |-> <<b, Channels, H, W>>, norm |-> norm,
                   mixup |-> m.mixup, lbda |-> m.lbda, perm |-> m.perm]
       /\ out' = ViTForward(vit, <<b, Channels, H, W>>, norm, m.mixup, m.lbda, m.perm)
  /\ pc' = "called"
  /\ UNCHANGED <<vit, blk, bout, tn>>

\* The caller drops the returned features; no tensor of the call is kept.
Return ==
  /\ pc = "called"
  /\ pc' = "ready"
  /\ call' = NoCall
  /\ out' = NoOut
  /\ UNCHANGED <<vit, blk, bout, tn>>

Next == Construct \/ Forward \/ Return

Spec == Init /\ [][Next]_vars

(***************************************************************************)
(* TransformerBlock.forward on values.  A token is a vector of two         *)
(* integers.  LayerNorm over two features standardizes <<p, q>> to         *)
(* <<sgn(p - q), sgn(q - p)>> (its eps taken as 0) and applies its learned *)
(* weight and bias.  attention and mlp are sublayers drawn from the family *)
(* v |-> k * v + c; k = 0, c = 0 is the sublayer that returns zero.        *)
(***************************************************************************)
MaxCoef == 1      \* learned weights, biases and sublayer coefficients are 0..MaxCoef
MaxVal == 1       \* input features are 0..MaxVal

Coef == 0..MaxCoef
Features == {<<p, q>> : p \in 0..MaxVal, q \in 0..MaxVal}

Sgn(d) == IF d > 0 THEN 1 ELSE IF d < 0 THEN -1 ELSE 0
VAdd(u, v) == <<u[1] + v[1], u[2] + v[2]>>

\* norm_layer(dim) with weight w and bias b
LayerNorm(v, w, b) == <<w * Sgn(v[1] - v[2]) + b, w * Sgn(v[2] - v[1]) + b>>

\* a sublayer with parameters f = <<k, c>>
Sublayer(f, v) == <<f[1] * v[1] + f[2], f[1] * v[2] + f[2]>>

\* The block of the usual pre-norm layout: each sublayer's output is added
\* to the value that went into the normalization before it.
TransformerBlockForwardPreNorm(self, x) ==
  LET n1 == LayerNorm(x, self.w1, self.b1)
      y  == VAdd(x, Sublayer(self.attention, n1))
      n2 == LayerNorm(y, self.w2, self.b2)
  IN VAdd(y, Sublayer(self.mlp, n2))

TransformerBlockForward(self, x) ==
  LET x1 == LayerNorm(x, self.w1, self.b1)              \* x = self.norm1(x)
      x2 == VAdd(x1, Sublayer(self.attention, x1))      \* x = x + self.attention(x)
      x3 == LayerNorm(x2, self.w2, self.b2)             \* x = self.norm2(x)
  IN VAdd(x3, Sublayer(self.mlp, x3))                   \* x = x + self.mlp(x)

BlockInit ==
  /\ pc = "block"
  /\ vit = 0 /\ call = 0 /\ out = 0 /\ tn = 0
  /\ blk \in [w1 : Coef, b1 : Coef, w2 : Coef, b2 : Coef,
              attention : Coef \X Coef, mlp : Coef \X Coef]
  /\ bout = [x |-> <<0, 0>>, y |-> <<0, 0>>]

BlockForward ==
  /\ pc = "block"
  /\ \E x \in Features :
       bout' = [x |-> x, y |-> TransformerBlockForward(blk, x)]
  /\ pc' = "block_done"
  /\ UNCHANGED <<vit, call, out, blk, tn>>

BlockReturn ==
  /\ pc = "block_done"
  /\ pc' = "block"
  /\ bout' = [x |-> <<0, 0>>, y |-> <<0, 0>>]
  /\ UNCHANGED <<vit, call, out, blk, tn>>

BlockNext == BlockForward \/ BlockReturn

BlockSpec == BlockInit /\ [][BlockNext]_vars

ZeroSublayers == blk.attention = <<0, 0>> /\ blk.mlp = <<0, 0>>

\* C5 as claimed: with y = norm1(x) + attention(norm1(x)), the output is
\* y + mlp(norm2(y)); with zero sublayers the output is norm1(x).
C5_SecondResidualOnY ==
  pc = "block_done" =>
    LET n1 == LayerNorm(bout.x, blk.w1, blk.b1)
        y  == VAdd(n1, Sublayer(blk.attention, n1))
    IN /\ bout.y = VAdd(y, Sublayer(blk.mlp, LayerNorm(y, blk.w2, blk.b2)))
       /\ ZeroSublayers => bout.y = n1

\* C5 as amended: with y = norm1(x) + attention(norm1(x)), the output is
\* norm2(y) + mlp(norm2(y)): the second residual add adds the MLP output to
\* the normalized y; with zero sublayers the output is norm2(norm1(x)).
C5_SecondResidualOnNorm2 ==
  pc = "block_done" =>
    LET n1 == LayerNorm(bout.x, blk.w1, blk.b1)
        y  == VAdd(n1, Sublayer(blk.attention, n1))
        n2 == LayerNorm(y, blk.w2, blk.b2)
    IN /\ bout.y = VAdd(n2, Sublayer(blk.mlp, n2))
       /\ ZeroSublayers => bout.y = LayerNorm(n1, blk.w2, blk.b2)

C5_Witness ==
  /\ pc = "block_done"
  /\ ZeroSublayers
  /\ bout.y # LayerNorm(bout.x, blk.w1, blk.b1)

(***************************************************************************)
(* _no_grad_trunc_normal_ on a float32 tensor, in interval arithmetic.     *)
(*                                                                         *)
(* A tensor element is a pair <<l, u>>: the element's value is some float  *)
(* between l and u, both included.  uniform_ may return any float of       *)
(* [from, to], so the action draws, for each element, one of the cells     *)
(* that cover [from, to]; the later steps carry the bounds of the cell     *)
(* through erfinv_, mul_, add_ and clamp_, each rounded outwards by one    *)
(* unit of the grid, which is far above the error of a float32 operation.  *)
(* What holds of every pair on a behaviour holds of every value the        *)
(* generator can produce.                                                  *)
(*                                                                         *)
(* Probabilities are whole numbers of 1/Unit = 2^-24, the spacing of       *)
(* float32 below 1.  std is a whole number of 1/StdDen, quantiles are      *)
(* whole numbers of 1/Grain standard deviations, and elements from mul_ on *)
(* are whole numbers of 1/Scale.  An infinity is a value beyond every      *)
(* finite one.                                                             *)
(***************************************************************************)
MaxMean == 4      \* mean is -MaxMean..MaxMean
MaxStd == 2       \* std is .02 or one of 1..MaxStd
MaxAB == 2        \* a and b are -MaxAB..MaxAB
NumEl == 2        \* the tensor has NumEl elements

StdDen == 50
StdInitWeights == 1     \* std=.02 of _init_weights, in 1/StdDen
Grain == 24
Scale == StdDen * Grain
CellStep == 24          \* a cell of uniform_ spans CellStep / Grain
                        \* standard deviations

\* floor(2^26 * erf(h / (Grain * sqrt(2)))) for h = 1..134, h in 1/Grain of
\* a standard deviation
ErfTable ==
  <<  2230401,  4456934,  6675751,  8883043, 11075062, 13248138,
     15398699, 17523286, 19618573, 21681381, 23708690, 25697656,
     27645620, 29550118, 31408890, 33219889, 34981281, 36691455,
     38349020, 39952808, 41501872, 42995485, 44433134, 45814516,
     47139531, 48408274, 49621029, 50778256, 51880582, 52928791,
     53923810, 54866701, 55758644, 56600930, 57394944, 58142153,
     58844097, 59502375, 60118633, 60694551, 61231838, 61732214,
     62197409, 62629144, 63029133, 63399066, 63740608, 64055392,
     64345011, 64611015, 64854904, 65078130, 65282090, 65468123,
     65637509, 65791472, 65931173, 66057714, 66172134, 66275416,
     66368483, 66452198, 66527372, 66594759, 66655059, 66708926,
     66756962, 66799724, 66837725, 66871437, 66901291, 66927683,
     66950975, 66971495, 66989541, 67005384, 67019269, 67031417,
     67042026, 67051276, 67059327, 67066321, 67072388, 67077641,
     67082181, 67086098, 67089472, 67092373, 67094863, 67096996,
     67098821, 67100380, 67101708, 67102838, 67103798, 67104613,
     67105302, 67105884, 67106376, 67106789, 67107137, 67107429,
     67107673, 67107878, 67108049, 67108191, 67108309, 67108407,
     67108489, 67108556, 67108612, 67108658, 67108696, 67108727,
     67108753, 67108773, 67108790, 67108804, 67108816, 67108825,
     67108833, 67108839, 67108844, 67108848, 67108851, 67108853,
     67108855, 67108857, 67108858, 67108859, 67108860, 67108861,
     67108861, 67108862 >>
Unit == 16777216
PosInf == 1000 * 1000 * 1000
NegInf == -PosInf
IsInf(v) == v = PosInf \/ v = NegInf
Abs(v) == IF v < 0 THEN -v ELSE v
Min(x, y) == IF x <= y THEN x ELSE y
Max(x, y) == IF x >= y THEN x ELSE y

\* erf(h / (Grain * sqrt 2)) rounded to the nearest 1/Unit, as the float32
\* that uniform_ receives: 1 from 134/24 standard deviations on
ErfRound(h) ==
  IF h = 0 THEN 0
  ELSE IF h > Len(ErfTable) THEN Unit
  ELSE (ErfTable[h] + 2) \div 4

\* math.erf(x / math.sqrt(2.)) for x = num / den, den > 0, in 1/Unit
Erf(num, den) == Sgn(num) * ErfRound((Grain * Abs(num)) \div den)

\* norm_cdf(x) = (1 + erf(x / sqrt 2)) / 2, in 1/(2 * Unit)
NormCdf(num, den) == Unit + Erf(num, den)

\* 2 * l - 1 and 2 * u - 1, the bounds given to uniform_, in 1/Unit; std is
\* in 1/StdDen, so (a - mean) / std = StdDen * (a - mean) / std
UniformLow(mean, std, a) == NormCdf(StdDen * (a - mean), std) - Unit
UniformHigh(mean, std, b) == NormCdf(StdDen * (b - mean), std) - Unit

\* The least probability, in 1/Unit, whose quantile reaches h / Grain
ErfCeil(h) ==
  IF h = 0 THEN 0
  ELSE IF h > Len(ErfTable) THEN Unit
  ELSE ErfTable[h] \div 4 + 1

\* The cells of uniform_: 0 and the probabilities of every CellStep / Grain
\* standard deviations cut [0, 1) into ranges of probabilities; their
\* mirror images cover (-1, 0]; 1.0 and -1.0 are cells of their own.
Bnd(k) == Min(Unit, ErfCeil(CellStep * k))
NumCells == Cardinality({k \in 0..Len(ErfTable) : Bnd(k) < Unit})
Cells ==
  LET pos == {<<Bnd(k), Bnd(k + 1) - 1>> : k \in 0..(NumCells - 1)}
  IN pos \cup {<<-c[2], -c[1]>> : c \in pos}
         \cup {<<Unit, Unit>>, <<-Unit, -Unit>>}

\* One element of uniform_(from, to): a float of the cell and of [from, to]
UniformCell(cell, from, to) == <<Max(from, cell[1]), Min(to, cell[2])>>

\* One unit outwards, for the rounding of a float32 operation
Down(v) == IF IsInf(v) THEN v ELSE v - 1
Up(v) == IF IsInf(v) THEN v ELSE v + 1

\* erfinv followed by the factor sqrt(2) of mul_, that is the normal
\* quantile of (1 + p) / 2, in 1/Grain of a standard deviation and rounded
\* down: finite for every p strictly between -1 and 1, and the infinities
\* at -1 and 1
QuantileFloor(p) ==
  IF p >= Unit THEN PosInf
  ELSE IF p <= -Unit THEN NegInf
  ELSE LET below == Cardinality({h \in 1..Len(ErfTable) : ErfTable[h] < 4 * Abs(p)})
       IN IF p >= 0 THEN below ELSE -(below + 1)

\* the same, rounded up
QuantileCeil(p) == -QuantileFloor(-p)

\* erfinv_ of one element
Erfinv(v) == <<Down(QuantileFloor(v[1])), Up(QuantileCeil(v[2]))>>

\* mul_(std * sqrt 2) of one element, the sqrt 2 being part of Erfinv; the
\* result is in 1/Scale
Mul(v, std) ==
  << IF IsInf(v[1]) THEN v[1] ELSE Down(v[1] * std),
     IF IsInf(v[2]) THEN v[2] ELSE Up(v[2] * std) >>

\* add_(mean) of one element, in 1/Scale
Add(v, mean) ==
  << IF IsInf(v[1]) THEN v[1] ELSE Down(v[1] + Scale * mean),
     IF IsInf(v[2]) THEN v[2] ELSE Up(v[2] + Scale * mean) >>

ClampMinOnly(v, a, b) ==
  << Max(v[1], Scale * a), Max(v[2], Scale * a) >>

\* clamp_(min=a, max=b) of one element, in 1/Scale: exact on floats
Clamp(v, a, b) ==
  << Min(Max(v[1], Scale * a), Scale * b), Min(Max(v[2], Scale * a), Scale * b) >>

\* if (mean < a - 2 * std) or (mean > b + 2 * std): warnings.warn(...),
\* with std in 1/StdDen
Warns(mean, std, a, b) ==
  StdDen * mean < StdDen * a - 2 * std \/ StdDen * mean > StdDen * b + 2 * std

Els == 1..NumEl
\* std=.02 as in trunc_normal_(m.weight, std=.02), and whole numbers
Stds == {StdInitWeights} \cup {StdDen * s : s \in 1..MaxStd}
TnArgs ==
  {t \in [mean : (-MaxMean)..MaxMean, std : Stds,
          a : (-MaxAB)..MaxAB, b : (-MaxAB)..MaxAB] : t.a <= t.b}

TruncInit ==
  /\ pc = "tn_new"
  /\ vit = 0 /\ call = 0 /\ out = 0 /\ blk = 0 /\ bout = 0
  /\ tn = [args |-> [mean |-> 0, std |-> StdDen, a |-> 0, b |-> 0],
           tensor |-> [i \in Els |-> <<0, 0>>], warned |-> FALSE]

\* the call, up to the warning
TruncNormalEnter ==
  /\ pc = "tn_new"
  /\ \E t \in TnArgs :
       tn' = [tn EXCEPT !.args = t, !.warned = Warns(t.mean, t.std, t.a, t.b)]
  /\ pc' = "tn_uniform"
  /\ UNCHANGED <<vit, call, out, blk, bout>>

\* tensor.uniform_(2 * l - 1, 2 * u - 1)
TruncNormalUniform ==
  /\ pc = "tn_uniform"
  /\ LET lo == UniformLow(tn.args.mean, tn.args.std, tn.args.a)
         hi == UniformHigh(tn.args.mean, tn.args.std, tn.args.b)
     IN \E sample \in [Els -> {c \in Cells : c[1] <= hi /\ lo <= c[2]}] :
          tn' = [tn EXCEPT !.tensor =
                   [i \in Els |-> UniformCell(sample[i], lo, hi)]]
  /\ pc' = "tn_erfinv"
  /\ UNCHANGED <<vit, call, out, blk, bout>>

\* tensor.erfinv_()
TruncNormalErfinv ==
  /\ pc = "tn_erfinv"
  /\ tn' = [tn EXCEPT !.tensor = [i \in Els |-> Erfinv(tn.tensor[i])]]
  /\ pc' = "tn_mul"
  /\ UNCHANGED <<vit, call, out, blk, bout>>

\* tensor.mul_(std * math.sqrt(2.))
TruncNormalMul ==
  /\ pc = "tn_mul"
  /\ tn' = [tn EXCEPT !.tensor = [i \in Els |-> Mul(tn.tensor[i], tn.args.std)]]
  /\ pc' = "tn_add"
  /\ UNCHANGED <<vit, call, out, blk, bout>>

\* tensor.add_(mean)
TruncNormalAdd ==
  /\ pc = "tn_add"
  /\ tn' = [tn EXCEPT !.tensor = [i \in Els |-> Add(tn.tensor[i], tn.args.mean)]]
  /\ pc' = "tn_clamp"
  /\ UNCHANGED <<vit, call, out, blk, bout>>

\* tensor.clamp_(min=a, max=b); return tensor
TruncNormalClamp ==
  /\ pc = "tn_clamp"
  /\ tn' = [tn EXCEPT !.tensor =
              [i \in Els |-> Clamp(tn.tensor[i], tn.args.a, tn.args.b)]]
  /\ pc' = "tn_done"
  /\ UNCHANGED <<vit, call, out, blk, bout>>

TruncNext ==
  \/ TruncNormalEnter
  \/ TruncNormalUniform
  \/ TruncNormalErfinv
  \/ TruncNormalMul
  \/ TruncNormalAdd
  \/ TruncNormalClamp

TruncSpec == TruncInit /\ [][TruncNext]_vars

\* C8: once trunc_normal_ has returned, every element lies in [a, b], with
\* or without the warning and whatever uniform_ has drawn; and the fill is
\* never stopped on the way: the range given to uniform_ is not empty, so
\* uniform_ does not raise.
C8_WithinBounds ==
  /\ pc = "tn_done" =>
       \A i \in Els : /\ Scale * tn.args.a <= tn.tensor[i][1]
                      /\ tn.tensor[i][1] <= tn.tensor[i][2]
                      /\ tn.tensor[i][2] <= Scale * tn.args.b
  /\ pc = "tn_uniform" =>
       UniformLow(tn.args.mean, tn.args.std, tn.args.a)
         <= UniformHigh(tn.args.mean, tn.args.std, tn.args.b)

\* A call that warned has returned; its first element was drawn beyond b
\* and brought back to it, its second lies strictly inside [a, b].
C8_Witness ==
  /\ pc = "tn_done"
  /\ tn.warned
  /\ tn.args.a < tn.args.b
  /\ tn.tensor[1] = <<Scale * tn.args.b, Scale * tn.args.b>>
  /\ Scale * tn.args.a < tn.tensor[2][1]
  /\ tn.tensor[2][2] < Scale * tn.args.b

(***************************************************************************)
(* Properties of the encoder, checked under Spec.                          *)
(***************************************************************************)
Called == pc = "called"
AtConfiguredSize ==
  call.x[3] = vit.image_height /\ call.x[4] = vit.image_width
DivisibleConfig ==
  vit.image_height % vit.patch_height = 0 /\ vit.image_width % vit.patch_width = 0
DivisibleInput ==
  call.x[3] % vit.patch_height = 0 /\ call.x[4] % vit.patch_width = 0
\* the general path ran its resize and passed its assertion
Interpolated == out.pos.path = "general" /\ out.pos.kind = "interpolated"

\* C1: for every configuration whose image size is a multiple of its patch
\* size, a forward call on a batch at the configured resolution succeeds;
\* the sequence given to the blocks and kept by them has shape
\* (batch, patch_count + 1, dim) and the result has shape (batch, dim).
C1_ForwardShape ==
  (Called /\ DivisibleConfig /\ AtConfiguredSize) =>
    /\ out.status = "ok"
    /\ out.embed.shape[2] =
         (vit.image_height \div vit.patch_height) * (vit.image_width \div vit.patch_width)
    /\ out.features.seqshape = <<call.x[1], out.embed.shape[2] + 1, vit.dim>>
    /\ out.features.shape = <<call.x[1], vit.dim>>

\* C2: a forward call on an image of the configured height and width that
\* reaches interpolate_pos_encoding takes the fast path, which returns the
\* stored pos_embedding.
C2_FastPathAtConfiguredSize ==
  (Called /\ AtConfiguredSize /\ out.pos.path # "none") =>
    (out.pos.path = "fast" /\ out.pos.kind = "stored")

\* C3: the positional tensor the general path returns has sequence length
\* patch_count + 1, patch_count being the number of patches the patch
\* embedding produced for the same image.
C3_PosLengthMatches ==
  (Called /\ Interpolated) => out.pos.len = out.embed.shape[2] + 1

\* C4: the grid the general path returns has the rows and columns of the
\* patch grid of the same image, so that sequence position k of the patches
\* and of the positions is the same grid cell.
C4_GridAligned ==
  (Called /\ Interpolated) =>
    (out.pos.grid = out.embed.grid /\ out.pos.seq = out.embed.seq)

\* The same call on the model with the other projection.
OtherProjection == IF vit.projection = "linear" THEN "conv" ELSE "linear"
OtherOut ==
  ViTForward([vit EXCEPT !.projection = OtherProjection],
             call.x, call.norm, call.mixup, call.lbda, call.perm)

\* C6 as claimed: for every input, both projections succeed or both fail,
\* with the same shape, the same order of patches and the same sequence
\* length seen by the rest of forward.
C6_SameOutcome ==
  Called =>
    /\ (OtherOut.status = "ok") <=> (out.status = "ok")
    /\ (OtherOut.embed.status = "ok") <=> (out.embed.status = "ok")
    /\ OtherOut.embed.shape = out.embed.shape
    /\ OtherOut.embed.seq = out.embed.seq

\* C6 as amended: for an input whose height and width are multiples of the
\* patch height and width, both projections give the same shape
\* (batch, patch_count, dim), the same row-major order, and the same result
\* of forward; whenever both succeed they agree on shape and order.  For
\* any other input the linear variant raises, and the convolution drops the
\* remainder, raising only for an image smaller than the patch.
C6_SameOutcomeWhenDivisible ==
  Called =>
    /\ DivisibleInput =>
         /\ out.embed.status = "ok"
         /\ out.embed.shape =
              <<call.x[1],
                (call.x[3] \div vit.patch_height) * (call.x[4] \div vit.patch_width),
                vit.dim>>
         /\ out.embed.seq = RowMajor(call.x[3] \div vit.patch_height,
                                     call.x[4] \div vit.patch_width)
         /\ OtherOut = out
    /\ ~DivisibleInput =>
         LET lin == LinearProjection(vit, call.x)
             conv == ConvProjectionForward(vit, call.x)
         IN /\ lin.status = "rearrange_error"
            /\ conv.status =
                 IF call.x[3] < vit.patch_height \/ call.x[4] < vit.patch_width
                   THEN "conv_error" ELSE "ok"
            /\ conv.status = "ok" =>
                 conv.grid = <<call.x[3] \div vit.patch_height,
                               call.x[4] \div vit.patch_width>>
    /\ (OtherOut.embed.status = "ok" /\ out.embed.status = "ok") =>
         (OtherOut.embed.shape = out.embed.shape /\ OtherOut.embed.seq = out.embed.seq)

C6_Witness ==
  /\ Called /\ DivisibleInput /\ vit.projection = "conv"
  /\ out.status = "ok"
  /\ out.embed.grid = <<2, MaxSide>>

\* C7: the result of forward does not depend on mixup, lbda and perm: any
\* other values of the three give the result the call gave, errors included.
C7_MixupIgnored ==
  Called =>
    \A m \in MixValues :
      ViTForward(vit, call.x, call.norm, m.mixup, m.lbda, m.perm) = out

C7_Witness ==
  /\ Called /\ out.status = "ok"
  /\ call.mixup # "None" /\ call.lbda = "None" /\ call.perm = "None"

\* C9 as claimed: before anything is constructed, there are a configuration
\* to construct and an image to pass that make the forward pass end at the
\* assertion of interpolate_pos_encoding.
C9_AssertionCanFail ==
  pc = "new" =>
  \E ih \in Sides, iw \in Sides, ph \in PatchSides, pw \in PatchSides,
     projection \in Projections, H \in Sides, W \in Sides :
    ViTForward(ViTInit(<<ih, iw>>, <<ph, pw>>, Dim, 0, Heads, FALSE, projection),
               <<1, Channels, H, W>>, TRUE, "None", "None", "None").status
      = "assertion_error"

\* C9 as amended: the assertion is reached whenever the resize completes and
\* never fails: the resized grid has exactly the integer-truncated target
\* dimensions, and no forward pass ends at the assertion.
C9_AssertionNeverFails ==
  Called =>
    /\ out.status # "assertion_error"
    /\ out.pos.status # "assertion_error"
    /\ Interpolated =>
         out.pos.grid = <<call.x[4] \div vit.patch_height, call.x[3] \div vit.patch_width>>

C9_Witness ==
  /\ Called /\ Interpolated
  /\ ~DivisibleInput
  /\ out.pos.grid[1] # out.pos.grid[2]

\* C10 as claimed: a constructed ViT has an image height divisible by the
\* patch height and an image width divisible by the patch width.
C10_ConstructedIsDivisible ==
  pc # "new" => DivisibleConfig

\* C10 as amended: the constructor accepts a non-divisible image size; the
\* stored positional grid has rows * cols + 1 entries, rows and cols being the
\* whole numbers of patches that fit the image height and width.
C10_FloorGrid ==
  pc # "new" =>
    \E rows \in 0..vit.image_height, cols \in 0..vit.image_width :
      /\ rows * vit.patch_height <= vit.image_height
      /\ vit.image_height < (rows + 1) * vit.patch_height
      /\ cols * vit.patch_width <= vit.image_width
      /\ vit.image_width < (cols + 1) * vit.patch_width
      /\ vit.pos_len = rows * cols + 1

C10_Witness ==
  /\ pc = "ready"
  /\ vit.image_height % vit.patch_height # 0
  /\ vit.image_width % vit.patch_width # 0
  /\ vit.pos_len = 2

====
